---- MODULE Spec2Model ----
(***************************************************************************)
(* State-machine model of hass_client/client.py (HomeAssistantClient).     *)
(*                                                                         *)
(* asyncio runs one task at a time and switches only at an await that      *)
(* really suspends, so every action below is one such atomic segment of a  *)
(* coroutine.  The websocket transport (aiohttp) is the environment: a     *)
(* connection is an object with a `closed` flag, close() sets the flag     *)
(* when it is called, and receive() on a closed connection yields CLOSED.  *)
(* The server is arbitrary: an open connection can deliver any frame.      *)
(***************************************************************************)
EXTENDS Integers, Sequences, FiniteSets, TLC

\* ---- bounds of the model ------------------------------------------------
MaxConn == 2            \* transport connections that can be opened in a run
MaxLifecycleConn == 3   \* the same, in runs of connect/disconnect with one plain caller
MaxId == 3              \* largest message id that is handed out
MaxCallbacks == 1       \* scheduled, not yet run, subscription callbacks
MaxDeliveryCallbacks == 2   \* the same, in runs of event delivery on one connection

\* ---- program constants --------------------------------------------------
InitMsgId == 1                  \* self._last_msg_id = 1
InitMaxMsgSize == 4194304       \* self._max_msg_size = 4 * 1024 * 1024

Conns == 1..(IF MaxConn > MaxLifecycleConn THEN MaxConn ELSE MaxLifecycleConn)
Ids == InitMsgId..MaxId          \* values an "id" field or key can have

\* ---- tasks ----------------------------------------------------------------
Callers == {<<"caller", 1>>}                    \* tasks calling send_command & co.
Subs == {<<"sub", 1>>}                          \* tasks calling subscribe()
Ctls == {<<"ctl", 1>>}                          \* tasks calling connect()/disconnect()
Sup(d) == <<"sup", d>>                           \* auto_reconnect started by dispatcher d
Disp(d) == <<"disp", d>>                         \* _process_messages task number d
Sups == {Sup(d) : d \in Conns}
Disps == {Disp(d) : d \in Conns}
Tasks == Callers \cup Subs \cup Ctls \cup Sups \cup Disps

\* ---- values ----------------------------------------------------------------
Results == {"r1", "r2"}                \* msg["result"] of a result frame
ErrMsgs == {"m1"}                      \* msg["error"]["message"]
AttemptedSizes == {5000000}            \* size reported by a MESSAGE_TOO_BIG close
EventPayloads == {"e1", "e2"}          \* msg["event"] of an event frame
\* a command name is a sequence of tokens, so that `"subscribe" in name` and
\* name.replace("subscribe", "unsubscribe") are computed, not assumed
CmdOf(t) == <<"get_", "states">>
SubCmd == <<"subscribe", "_events">>

\* how a call of task t ended
NoReturn == [task |-> <<"none", 0>>, kind |-> "none", val |-> "", msg |-> ""]
Return(t, v) == [task |-> t, kind |-> "return", val |-> v, msg |-> ""]
Raise(t, e) == [task |-> t, kind |-> "raise", val |-> e, msg |-> ""]
RaiseMsg(t, e, m) == [task |-> t, kind |-> "raise", val |-> e, msg |-> m]

\* an asyncio.Future: st is none (no such object), pending, result, exception
\* cancelled, or done for one that nobody awaits; val is the result, the
\* FailedCommand message or the cancel msg
NoFuture == [st |-> "none", val |-> ""]
PendingFuture == [st |-> "pending", val |-> ""]

\* self._shutdown_complete_event = None; an Event is named by the task whose
\* disconnect() made it
NoEvent == <<"none", 0>>

NoFrame == [id |-> 0, type |-> <<>>, subscription |-> 0, conn |-> 0]

VARIABLES
    client,             \* self._client: 0 is None, else the connection object
    closed,             \* closed[k]: the `closed` flag of connection k
    nconn,              \* connections opened so far
    connMax,            \* max_msg_size connection k was opened with
    maxMsgSize,         \* self._max_msg_size
    connectedEvent,     \* self._connected_event.is_set()
    shutdownEvent,      \* self._shutdown_complete_event: NoEvent or the Event of a disconnect() caller
    evSet,              \* evSet[c]: is_set() of the Event made by c's disconnect()
    lastMsgId,          \* self._last_msg_id
    resultFutures,      \* keys of self._result_futures
    fut,                \* fut[i]: the future registered under id i
    subscriptions,      \* self._subscriptions, in insertion order: <<[id, sub]>>
    pc,                 \* pc[t]: where task t is suspended
    mid,                \* mid[t]: message_id local of t's send_command frame
    rx,                 \* rx[t]: connection whose receive() t is awaiting
    retryable,          \* retryable[c]: c is inside send_retryable_command
    csize,              \* csize[t]: max_msg_size argument of t's ws_connect call
    rlist,              \* rlist[s]: subscriptions local of auto_reconnect, not yet re-issued
    dexc,               \* dexc[d]: terminating_exception of dispatcher d
    ndisp,              \* dispatcher tasks created so far
    detached,           \* tasks made by asyncio.create_task and not yet run
    callbacks,          \* handlers scheduled by call_soon/create_task, not yet run
    wire,               \* the frame the last step handed to the transport, if any
    ret                 \* the return or exception the last step gave a calling task, if any

connVars == <<client, closed, nconn, connMax>>
eventVars == <<connectedEvent, shutdownEvent, evSet>>
muxVars == <<lastMsgId, resultFutures, fut>>
taskVars == <<pc, mid, rx, retryable, csize, rlist, dexc, ndisp>>
vars == <<client, closed, nconn, connMax, maxMsgSize, connectedEvent, shutdownEvent,
          evSet, lastMsgId, resultFutures, fut, subscriptions, pc, mid, rx,
          retryable, csize, rlist, dexc, ndisp, detached, callbacks, wire, ret>>

\* ---- helpers ----------------------------------------------------------------
\* a `connected` property that only looks whether a client object exists
ConnectedIgnoringClosed == client # 0

\* the `connected` property
Connected == client # 0 /\ ~closed[client]

\* "tok in name" for a command name
Contains(name, tok) == \E i \in 1..Len(name) : name[i] = tok

\* name.replace(old, new)
Replace(name, old, new) == [i \in 1..Len(name) |-> IF name[i] = old THEN new ELSE name[i]]

\* the outbound frame {"id": message_id, "type": command, **kwargs} on connection k
Frame(id, command, subscription, k) ==
    [id |-> id, type |-> command, subscription |-> subscription, conn |-> k]

\* a _get_message_id that hands out the stored counter without advancing it
GetMessageIdStale(last) == last

\* _get_message_id: the id it returns, which is also the new counter value
GetMessageId(last) == last + 1

\* the (message_base, cb_func) tuple made by subscribe() of task s
SubOf(s) == [base |-> [command |-> SubCmd], cb |-> s]

\* keys of self._subscriptions
SubKeys == {subscriptions[i].id : i \in 1..Len(subscriptions)}

\* list(self._subscriptions.values())
SubValues == [i \in 1..Len(subscriptions) |-> subscriptions[i].sub]

\* Event.set() of self._connected_event: every wait_for_connection() waiter is woken
WakeWaiters(p) == [t \in Tasks |-> IF p[t] = "waitconn" THEN "wake" ELSE p[t]]

Init ==
    /\ client = 0
    /\ closed = [k \in Conns |-> FALSE]
    /\ nconn = 0
    /\ connMax = [k \in Conns |-> 0]
    /\ maxMsgSize = InitMaxMsgSize
    /\ connectedEvent = FALSE
    /\ shutdownEvent = NoEvent
    /\ evSet = [c \in Ctls |-> FALSE]
    /\ lastMsgId = InitMsgId
    /\ resultFutures = {}
    /\ fut = [i \in Ids |-> NoFuture]
    /\ subscriptions = <<>>
    /\ pc = [t \in Tasks |-> IF t \in Sups \cup Disps THEN "off" ELSE "idle"]
    /\ mid = [t \in Tasks |-> 0]
    /\ rx = [t \in Tasks |-> 0]
    /\ retryable = [c \in Callers |-> FALSE]
    /\ csize = [t \in Ctls \cup Sups |-> 0]
    /\ rlist = [s \in Sups |-> <<>>]
    /\ dexc = [d \in Disps |-> "None"]
    /\ ndisp = 0
    /\ detached = {}
    /\ callbacks = <<>>
    /\ wire = NoFrame
    /\ ret = NoReturn

\* ---- send_command / send_retryable_command / send_command_no_wait ---------
\* send_command of caller c from its first line to its first suspension, with
\* rf and f the pending map and the futures as the calling segment left them:
\* allocate the id, register the future, then _send_json_message.
\* NotConnected is raised before the try block is entered, so no finally
\* pops the future.
CallerSend(c, retry, rf, f) ==
    LET id == GetMessageId(lastMsgId) IN
    /\ lastMsgId < MaxId
    /\ retryable' = [retryable EXCEPT ![c] = retry /\ Connected]
    /\ lastMsgId' = id
    /\ resultFutures' = rf \cup {id}
    /\ fut' = [f EXCEPT ![id] = PendingFuture]
    /\ IF Connected
       THEN /\ wire' = Frame(id, CmdOf(c), 0, client)
            /\ pc' = [pc EXCEPT ![c] = "await"]
            /\ mid' = [mid EXCEPT ![c] = id]
            /\ ret' = NoReturn
       ELSE /\ wire' = NoFrame
            /\ pc' = [pc EXCEPT ![c] = "idle"]
            /\ mid' = [mid EXCEPT ![c] = 0]
            /\ ret' = Raise(c, "NotConnected")

\* a caller task calls send_command (retry = FALSE) or send_retryable_command
SendCommand(c, retry) ==
    /\ pc[c] = "idle"
    /\ CallerSend(c, retry, resultFutures, fut)
    /\ UNCHANGED <<connVars, maxMsgSize, eventVars, subscriptions, rx, csize, rlist,
                   dexc, ndisp, detached, callbacks>>

\* a send_command that hands back whatever the future holds, error or not
AwaitOutcomeNoRaise(t, f) == Return(t, f.val)

\* what `return await future` of send_command gives task t once the future is
\* done: the result, FailedCommand, the exception passed as cancel message,
\* or, for a cancel without message (e.args is empty), nothing is raised and
\* the function falls off its end and returns None
AwaitOutcome(t, f) ==
    CASE f.st = "result" -> Return(t, f.val)
      [] f.st = "exception" -> RaiseMsg(t, "FailedCommand", f.val)
      [] f.st = "cancelled" /\ f.val # "None" -> Raise(t, f.val)
      [] OTHER -> Return(t, "None")

\* the caller resumes from `await future`; the finally pops its id.  Under
\* send_retryable_command a ConnectionFailedDueToLargeMessage is caught and
\* wait_for_connection() awaited: when the event is set the loop sends again
\* at once, otherwise the task suspends on the event.
CallerResume(c) ==
    /\ pc[c] = "await"
    /\ fut[mid[c]].st # "pending"
    /\ LET o == AwaitOutcome(c, fut[mid[c]])
           rf == resultFutures \ {mid[c]}
           f == [fut EXCEPT ![mid[c]] = NoFuture]
       IN  IF retryable[c] /\ o = Raise(c, "ConnectionFailedDueToLargeMessage")
           THEN IF connectedEvent
                THEN CallerSend(c, TRUE, rf, f)
                ELSE /\ pc' = [pc EXCEPT ![c] = "waitconn"]
                     /\ retryable' = retryable
                     /\ mid' = [mid EXCEPT ![c] = 0]
                     /\ resultFutures' = rf
                     /\ fut' = f
                     /\ wire' = NoFrame
                     /\ ret' = NoReturn
                     /\ lastMsgId' = lastMsgId
           ELSE /\ pc' = [pc EXCEPT ![c] = "idle"]
                /\ mid' = [mid EXCEPT ![c] = 0]
                /\ retryable' = [retryable EXCEPT ![c] = FALSE]
                /\ ret' = o
                /\ resultFutures' = rf
                /\ fut' = f
                /\ wire' = NoFrame
                /\ lastMsgId' = lastMsgId
    /\ UNCHANGED <<connVars, maxMsgSize, eventVars, subscriptions, rx, csize,
                   rlist, dexc, ndisp, detached, callbacks>>

\* a send_retryable_command caller woken by _connected_event.set() runs the
\* next iteration of its loop
RetryWake(c) ==
    /\ pc[c] = "wake"
    /\ CallerSend(c, TRUE, resultFutures, fut)
    /\ UNCHANGED <<connVars, maxMsgSize, eventVars, subscriptions, rx, csize,
                   rlist, dexc, ndisp, detached, callbacks>>

\* send_command_no_wait: allocate an id and leave the send to a new task; the
\* caller gets None whatever the connection state
SendCommandNoWait(c) ==
    /\ pc[c] = "idle"
    /\ lastMsgId < MaxId
    /\ lastMsgId' = GetMessageId(lastMsgId)
    /\ detached' = detached \cup
           {[stage |-> "send", id |-> lastMsgId', type |-> CmdOf(c), subscription |-> 0]}
    /\ ret' = Return(c, "None")
    /\ wire' = NoFrame
    /\ UNCHANGED <<connVars, maxMsgSize, eventVars, resultFutures, fut, subscriptions,
                   taskVars, callbacks>>

\* a task made by asyncio.create_task runs: either the body of
\* send_command_no_wait (made by remove_listener) or _send_json_message, whose
\* NotConnected ends the task without reaching any caller
RunDetached(item) ==
    /\ item \in detached
    /\ IF item.stage = "call"
       THEN /\ lastMsgId < MaxId
            /\ lastMsgId' = GetMessageId(lastMsgId)
            /\ detached' = (detached \ {item}) \cup
                   {[stage |-> "send", id |-> lastMsgId', type |-> item.type,
                     subscription |-> item.subscription]}
            /\ wire' = NoFrame
       ELSE /\ detached' = detached \ {item}
            /\ wire' = IF Connected
                       THEN Frame(item.id, item.type, item.subscription, client)
                       ELSE NoFrame
            /\ lastMsgId' = lastMsgId
    /\ ret' = NoReturn
    /\ UNCHANGED <<connVars, maxMsgSize, eventVars, resultFutures, fut, subscriptions,
                   taskVars, callbacks>>

\* ---- subscribe / remove_listener ---------------------------------------------
\* subscribe() up to `await future` inside send_command(**message_base,
\* message_id=message_id): the id comes from subscribe's own _get_message_id
Subscribe(s) ==
    /\ pc[s] = "idle"
    /\ lastMsgId < MaxId
    /\ LET id == GetMessageId(lastMsgId) IN
       /\ lastMsgId' = id
       /\ resultFutures' = resultFutures \cup {id}
       /\ fut' = [fut EXCEPT ![id] = PendingFuture]
       /\ IF Connected
          THEN /\ wire' = Frame(id, SubOf(s).base.command, 0, client)
               /\ pc' = [pc EXCEPT ![s] = "await"]
               /\ mid' = [mid EXCEPT ![s] = id]
               /\ ret' = NoReturn
          ELSE /\ wire' = NoFrame
               /\ pc' = pc
               /\ mid' = mid
               /\ ret' = Raise(s, "NotConnected")
    /\ UNCHANGED <<connVars, maxMsgSize, eventVars, subscriptions, rx, retryable,
                   csize, rlist, dexc, ndisp, detached, callbacks>>

\* send_command returns into subscribe(): on a normal return (a result, or the
\* None of a cancel without message) the subscription is stored under the id
\* and the removal handle returned; an exception leaves subscribe()
SubscribeResume(s) ==
    /\ pc[s] = "await"
    /\ fut[mid[s]].st # "pending"
    /\ LET o == AwaitOutcome(s, fut[mid[s]]) IN
       /\ resultFutures' = resultFutures \ {mid[s]}
       /\ fut' = [fut EXCEPT ![mid[s]] = NoFuture]
       /\ mid' = [mid EXCEPT ![s] = 0]
       /\ IF o.kind = "return"
          THEN /\ subscriptions' = Append(subscriptions, [id |-> mid[s], sub |-> SubOf(s)])
               /\ pc' = [pc EXCEPT ![s] = "subscribed"]
               /\ ret' = Return(s, "remove_listener")
          ELSE /\ subscriptions' = subscriptions
               /\ pc' = [pc EXCEPT ![s] = "idle"]
               /\ ret' = o
    /\ wire' = NoFrame
    /\ UNCHANGED <<connVars, maxMsgSize, eventVars, lastMsgId, rx, retryable,
                   csize, rlist, dexc, ndisp, detached, callbacks>>

\* next((x for x, y in self._subscriptions.items() if y == sub), None):
\* the position of the first entry equal to sub, 0 for None
LookupKey(sub) ==
    LET hits == {i \in 1..Len(subscriptions) : subscriptions[i].sub = sub}
    IN  IF hits = {} THEN 0 ELSE CHOOSE i \in hits : \A j \in hits : i <= j

\* self._subscriptions.pop(key) for the entry at position i
PopAt(i) == [j \in 1..(Len(subscriptions) - 1) |->
                 IF j < i THEN subscriptions[j] ELSE subscriptions[j + 1]]

\* the part of remove_listener after the pop: message_base["type"] is looked
\* up in the dict subscribe() built, {"command": command, **kwargs}
UnsubscribeStep(base, key) ==
    IF "type" \notin DOMAIN base
    THEN [raise |-> "KeyError", tasks |-> {}]
    ELSE IF ~Contains(base.type, "subscribe")
    THEN [raise |-> "None", tasks |-> {}]
    ELSE [raise |-> "None",
          tasks |-> {[stage |-> "call", id |-> 0,
                      type |-> Replace(base.type, "subscribe", "unsubscribe"),
                      subscription |-> key]}]

\* the caller invokes the removal handle subscribe() returned to it, for the
\* first time or again
RemoveListener(s) ==
    /\ pc[s] \in {"subscribed", "removed"}
    /\ pc' = [pc EXCEPT ![s] = "removed"]
    /\ LET i == LookupKey(SubOf(s)) IN
       IF i = 0
       THEN /\ ret' = Return(s, "None")
            /\ UNCHANGED <<subscriptions, detached>>
       ELSE LET u == UnsubscribeStep(SubOf(s).base, subscriptions[i].id) IN
            /\ subscriptions' = PopAt(i)
            /\ detached' = detached \cup u.tasks
            /\ ret' = IF u.raise = "None" THEN Return(s, "None") ELSE Raise(s, u.raise)
    /\ wire' = NoFrame
    /\ UNCHANGED <<connVars, maxMsgSize, eventVars, muxVars, mid, rx, retryable, csize,
                   rlist, dexc, ndisp, callbacks>>

\* ---- connect ---------------------------------------------------------------------
Invokers == Ctls \cup Sups

\* connect() raises e into task t: a lifecycle caller gets the exception;
\* auto_reconnect catches only CannotConnect (then it sleeps), anything else
\* ends the supervisor task
PcAfterRaise(t, e) ==
    IF t \in Ctls THEN "idle" ELSE IF e = "CannotConnect" THEN "sleep" ELSE "dead"

RetAfterRaise(t, e) == IF t \in Ctls THEN Raise(t, e) ELSE NoReturn

\* a lifecycle caller calls connect(): runs to `await ws_connect(...)`, which
\* is called with the current self._max_msg_size
CtlConnect(t) ==
    /\ t \in Ctls
    /\ pc[t] \in {"idle", "disconnected"}
    /\ pc' = [pc EXCEPT ![t] = "ws_connect"]
    /\ csize' = [csize EXCEPT ![t] = maxMsgSize]
    /\ wire' = NoFrame
    /\ ret' = NoReturn
    /\ UNCHANGED <<connVars, maxMsgSize, eventVars, muxVars, subscriptions, mid, rx,
                   retryable, rlist, dexc, ndisp, detached, callbacks>>

\* auto_reconnect starts, or wakes from asyncio.sleep, and calls connect()
SupAttempt(t) ==
    /\ t \in Sups
    /\ pc[t] \in {"start", "sleep"}
    /\ pc' = [pc EXCEPT ![t] = "ws_connect"]
    /\ csize' = [csize EXCEPT ![t] = maxMsgSize]
    /\ wire' = NoFrame
    /\ ret' = NoReturn
    /\ UNCHANGED <<connVars, maxMsgSize, eventVars, muxVars, subscriptions, mid, rx,
                   retryable, rlist, dexc, ndisp, detached, callbacks>>

\* ws_connect completes: a new open connection is stored in self._client and
\* receive_json() awaited on it, or a ClientError becomes CannotConnect; at
\* most n connections are opened
WsConnectUpTo(t, n) ==
    /\ t \in Invokers
    /\ pc[t] = "ws_connect"
    /\ csize' = [csize EXCEPT ![t] = 0]
    /\ \/ /\ nconn < n
          /\ nconn' = nconn + 1
          /\ client' = nconn + 1
          /\ connMax' = [connMax EXCEPT ![nconn + 1] = csize[t]]
          /\ rx' = [rx EXCEPT ![t] = nconn + 1]
          /\ pc' = [pc EXCEPT ![t] = "handshake"]
          /\ ret' = NoReturn
       \/ /\ pc' = [pc EXCEPT ![t] = PcAfterRaise(t, "CannotConnect")]
          /\ ret' = RetAfterRaise(t, "CannotConnect")
          /\ UNCHANGED <<nconn, client, connMax, rx>>
    /\ wire' = NoFrame
    /\ UNCHANGED <<closed, maxMsgSize, eventVars, muxVars, subscriptions, mid, retryable,
                   rlist, dexc, ndisp, detached, callbacks>>

WsConnect(t) == WsConnectUpTo(t, MaxConn)

\* the replay loop of auto_reconnect for the subscriptions subs still to be
\* re-issued, with p, rf and f the task positions, pending map and futures so
\* far: nothing left ends the task; otherwise a fresh id and
\* send_command(**sub[0], message_id=id)
SupSend(t, p, rf, f, subs) ==
    IF subs = <<>>
    THEN /\ pc' = [p EXCEPT ![t] = "done"]
         /\ mid' = [mid EXCEPT ![t] = 0]
         /\ rlist' = [rlist EXCEPT ![t] = <<>>]
         /\ resultFutures' = rf
         /\ fut' = f
         /\ wire' = NoFrame
         /\ lastMsgId' = lastMsgId
    ELSE LET id == GetMessageId(lastMsgId) IN
         /\ lastMsgId < MaxId
         /\ lastMsgId' = id
         /\ resultFutures' = rf \cup {id}
         /\ fut' = [f EXCEPT ![id] = PendingFuture]
         /\ IF Connected
            THEN /\ wire' = Frame(id, Head(subs).base.command, 0, client)
                 /\ pc' = [p EXCEPT ![t] = "replay"]
                 /\ mid' = [mid EXCEPT ![t] = id]
                 /\ rlist' = [rlist EXCEPT ![t] = Tail(subs)]
            ELSE /\ wire' = NoFrame
                 /\ pc' = [p EXCEPT ![t] = "dead"]
                 /\ mid' = [mid EXCEPT ![t] = 0]
                 /\ rlist' = [rlist EXCEPT ![t] = <<>>]

\* the handshake of connect() on the connection it opened completes (version
\* frame, auth frame, auth result; only self._version changes in between).
\* auth_ok: the dispatcher task is created and _connected_event set; connect()
\* returns, to its caller or into auto_reconnect, which empties
\* self._subscriptions and starts the replay in the same segment.  Another
\* auth result raises AuthenticationFailed and leaves self._client open.  On
\* a closed connection, or when the server closes it, receive() yields a
\* close message and receive_json raises TypeError, which connect() does not
\* turn into CannotConnect.
Handshake(t) ==
    /\ t \in Invokers
    /\ pc[t] = "handshake"
    /\ rx' = [rx EXCEPT ![t] = 0]
    /\ \/ /\ ~closed[rx[t]]
          /\ ndisp' = ndisp + 1
          /\ connectedEvent' = TRUE
          /\ closed' = closed
          /\ LET p == WakeWaiters([pc EXCEPT ![Disp(ndisp + 1)] = "start"]) IN
             IF t \in Ctls
             THEN /\ pc' = [p EXCEPT ![t] = "idle"]
                  /\ ret' = Return(t, "None")
                  /\ wire' = NoFrame
                  /\ UNCHANGED <<muxVars, subscriptions, mid, rlist>>
             ELSE /\ subscriptions' = <<>>
                  /\ ret' = NoReturn
                  /\ SupSend(t, p, resultFutures, fut, SubValues)
       \/ /\ ~closed[rx[t]]
          /\ pc' = [pc EXCEPT ![t] = PcAfterRaise(t, "AuthenticationFailed")]
          /\ ret' = RetAfterRaise(t, "AuthenticationFailed")
          /\ wire' = NoFrame
          /\ UNCHANGED <<closed, ndisp, connectedEvent, muxVars, subscriptions, mid, rlist>>
       \/ /\ closed' = [closed EXCEPT ![rx[t]] = TRUE]
          /\ pc' = [pc EXCEPT ![t] = PcAfterRaise(t, "TypeError")]
          /\ ret' = RetAfterRaise(t, "TypeError")
          /\ wire' = NoFrame
          /\ UNCHANGED <<ndisp, connectedEvent, muxVars, subscriptions, mid, rlist>>
    /\ UNCHANGED <<client, nconn, connMax, maxMsgSize, shutdownEvent, evSet, retryable,
                   csize, dexc, detached, callbacks>>

\* auto_reconnect resumes from the send_command of the replay: a normal return
\* goes on with the next subscription, an exception ends the task
SupReplayResume(t) ==
    /\ t \in Sups
    /\ pc[t] = "replay"
    /\ fut[mid[t]].st # "pending"
    /\ LET o == AwaitOutcome(t, fut[mid[t]])
           rf == resultFutures \ {mid[t]}
           f == [fut EXCEPT ![mid[t]] = NoFuture]
       IN  IF o.kind = "return"
           THEN SupSend(t, pc, rf, f, rlist[t])
           ELSE /\ pc' = [pc EXCEPT ![t] = "dead"]
                /\ mid' = [mid EXCEPT ![t] = 0]
                /\ rlist' = [rlist EXCEPT ![t] = <<>>]
                /\ resultFutures' = rf
                /\ fut' = f
                /\ wire' = NoFrame
                /\ lastMsgId' = lastMsgId
    /\ ret' = NoReturn
    /\ UNCHANGED <<connVars, maxMsgSize, eventVars, subscriptions, rx, retryable,
                   csize, dexc, ndisp, detached, callbacks>>

\* ---- disconnect -------------------------------------------------------------------
\* disconnect(): nothing when not connected; otherwise a new Event is stored,
\* _close_client clears _connected_event and closes self._client, and the
\* caller waits for the Event
Disconnect(t) ==
    /\ t \in Ctls
    /\ pc[t] \in {"idle", "disconnected"}
    /\ IF ~Connected
       THEN /\ pc' = [pc EXCEPT ![t] = "disconnected"]
            /\ ret' = Return(t, "None")
            /\ UNCHANGED <<closed, connectedEvent, shutdownEvent, evSet>>
       ELSE /\ shutdownEvent' = t
            /\ evSet' = [evSet EXCEPT ![t] = FALSE]
            /\ connectedEvent' = FALSE
            /\ closed' = [closed EXCEPT ![client] = TRUE]
            /\ pc' = [pc EXCEPT ![t] = "disc_wait"]
            /\ ret' = NoReturn
    /\ wire' = NoFrame
    /\ UNCHANGED <<client, nconn, connMax, maxMsgSize, muxVars, subscriptions, mid, rx,
                   retryable, csize, rlist, dexc, ndisp, detached, callbacks>>

\* the Event of t's disconnect() has been set: disconnect() returns
DisconnectReturn(t) ==
    /\ t \in Ctls
    /\ pc[t] = "disc_wait"
    /\ evSet[t]
    /\ pc' = [pc EXCEPT ![t] = "disconnected"]
    /\ ret' = Return(t, "None")
    /\ wire' = NoFrame
    /\ UNCHANGED <<connVars, maxMsgSize, eventVars, muxVars, subscriptions, mid, rx,
                   retryable, csize, rlist, dexc, ndisp, detached, callbacks>>

\* ---- _process_messages / _handle_incoming_message --------------------------------
\* what receive() on connection k can complete with
InFrames(k) ==
    IF closed[k]
    THEN {[kind |-> "CLOSED", id |-> 0, ok |-> FALSE, val |-> "", size |-> 0]}
    ELSE {[kind |-> x, id |-> 0, ok |-> FALSE, val |-> "", size |-> 0] :
              x \in {"CLOSE", "ERROR", "TOO_BIG_UNPARSED", "BINARY", "BAD_JSON"}}
         \cup {[kind |-> "TOO_BIG", id |-> 0, ok |-> FALSE, val |-> "", size |-> n] :
                  n \in {m \in AttemptedSizes : m > connMax[k]}}
         \cup {[kind |-> "result", id |-> i, ok |-> TRUE, val |-> r, size |-> 0] :
                  i \in Ids, r \in Results}
         \cup {[kind |-> "result", id |-> i, ok |-> FALSE, val |-> m, size |-> 0] :
                  i \in Ids, m \in ErrMsgs}
         \cup {[kind |-> "event", id |-> i, ok |-> FALSE, val |-> "", size |-> 0] :
                  i \in Ids}

\* aiohttp closes the connection itself before receive() hands out a close
\* frame of the server or a protocol error
ClosedAfter(fr, k) ==
    IF fr.kind \in {"CLOSE", "ERROR", "TOO_BIG", "TOO_BIG_UNPARSED"}
    THEN [closed EXCEPT ![k] = TRUE] ELSE closed

\* the exception the loop body raises for a frame that is not parsed TEXT
FrameException(fr) ==
    CASE fr.kind = "TOO_BIG" -> "ConnectionFailedDueToLargeMessage"
      [] fr.kind \in {"ERROR", "TOO_BIG_UNPARSED"} -> "ConnectionFailed"
      [] fr.kind \in {"BINARY", "BAD_JSON"} -> "InvalidMessage"
      [] OTHER -> "None"

\* some coroutine is suspended in `await future` on the future of id i
Awaited(i) == \E t \in Tasks : pc[t] \in {"await", "replay"} /\ mid[t] = i

\* the future of id i once it is done.  Only `await future` reads how a
\* future ended; of a future that send_command left behind in
\* self._result_futures the program can only ever see that it is done.
Done(i, st, val) ==
    IF Awaited(i) THEN [st |-> st, val |-> val] ELSE [st |-> "done", val |-> ""]

\* a call_soon that puts the handler in front of what is already scheduled
CallSoonFront(q, e) == <<e>> \o q

\* self._loop.call_soon(handler, msg), and create_task(handler(msg)) alike:
\* the call is put behind everything the loop has already scheduled
CallSoon(q, e) == Append(q, e)

\* _handle_incoming_message for a parsed frame: the futures, the scheduled
\* callbacks and the exception it raises.  set_result/set_exception on a
\* future that is already done raises InvalidStateError.
HandleIncomingMessage(fr) ==
    IF fr.kind = "result"
    THEN IF fr.id \notin resultFutures
         THEN [fut |-> fut, callbacks |-> callbacks, exc |-> "None"]
         ELSE IF fut[fr.id].st # "pending"
         THEN [fut |-> fut, callbacks |-> callbacks, exc |-> "InvalidStateError"]
         ELSE [fut |-> [fut EXCEPT ![fr.id] =
                           Done(fr.id, IF fr.ok THEN "result" ELSE "exception", fr.val)],
               callbacks |-> callbacks, exc |-> "None"]
    ELSE IF fr.kind = "event" /\ fr.id \in SubKeys
    THEN [fut |-> fut,
          callbacks |-> CallSoon(callbacks,
              [cb |-> (CHOOSE e \in {subscriptions[i] : i \in 1..Len(subscriptions)} :
                           e.id = fr.id).sub.cb,
               id |-> fr.id, val |-> fr.val]),
          exc |-> "None"]
    ELSE [fut |-> fut, callbacks |-> callbacks, exc |-> "None"]

\* a cleanup that cancels the futures without passing the cause on
CancelFuturesNoMsg(f, exc) ==
    [i \in Ids |-> IF i \in resultFutures /\ f[i].st = "pending"
                   THEN Done(i, "cancelled", "None") ELSE f[i]]

\* future.cancel(msg=exc) for every future in self._result_futures
CancelFutures(f, exc) ==
    [i \in Ids |-> IF i \in resultFutures /\ f[i].st = "pending"
                   THEN Done(i, "cancelled", exc) ELSE f[i]]

\* the end of _process_messages after _close_client: cancel the futures, then
\* set the shutdown Event if there is one, else start auto_reconnect
DispFinish(d, exc, f) ==
    /\ fut' = CancelFutures(f, exc)
    /\ dexc' = [dexc EXCEPT ![d] = "None"]
    /\ IF shutdownEvent # NoEvent
       THEN /\ evSet' = [evSet EXCEPT ![shutdownEvent] = TRUE]
            /\ pc' = [pc EXCEPT ![d] = "done"]
       ELSE /\ evSet' = evSet
            /\ pc' = [pc EXCEPT ![d] = "done", ![Sup(d[2])] = "start"]

\* the loop has ended with terminating_exception exc, cl and f being the
\* connection flags and futures at that point: _close_client clears the
\* connected event and, when self._client is still open, awaits its close()
DispExit(d, exc, cl, f) ==
    /\ connectedEvent' = FALSE
    /\ rx' = [rx EXCEPT ![d] = 0]
    /\ IF ~cl[client]
       THEN /\ closed' = [cl EXCEPT ![client] = TRUE]
            /\ pc' = [pc EXCEPT ![d] = "closing"]
            /\ dexc' = [dexc EXCEPT ![d] = exc]
            /\ fut' = f
            /\ evSet' = evSet
       ELSE /\ closed' = cl
            /\ DispFinish(d, exc, f)

\* the dispatcher task runs for the first time: the loop condition
DispStart(d) ==
    /\ d \in Disps
    /\ pc[d] = "start"
    /\ IF ~closed[client]
       THEN /\ pc' = [pc EXCEPT ![d] = "recv"]
            /\ rx' = [rx EXCEPT ![d] = client]
            /\ UNCHANGED <<closed, connectedEvent, evSet, fut, dexc>>
       ELSE DispExit(d, "None", closed, fut)
    /\ UNCHANGED <<client, nconn, connMax, maxMsgSize, shutdownEvent, lastMsgId,
                   resultFutures, subscriptions, mid, retryable, csize, rlist,
                   ndisp, detached, callbacks>>
    /\ wire' = NoFrame
    /\ ret' = NoReturn

\* receive() of dispatcher d completes with frame fr: one iteration of the
\* loop, and when the loop ends, the cleanup up to its first suspension; at
\* most n handlers are scheduled and not yet run
DispIteration(d, fr, n) ==
    /\ d \in Disps
    /\ pc[d] = "recv"
    /\ LET cl == ClosedAfter(fr, rx[d])
           h == HandleIncomingMessage(fr)
           exc == IF fr.kind \in {"result", "event"} THEN h.exc ELSE FrameException(fr)
       IN  /\ Len(h.callbacks) <= n
           /\ callbacks' = h.callbacks
           /\ maxMsgSize' = IF fr.kind = "TOO_BIG" THEN fr.size * 2 ELSE maxMsgSize
           /\ IF fr.kind \in {"CLOSE", "CLOSED"} \/ exc # "None" \/ cl[client]
              THEN DispExit(d, exc, cl, h.fut)
              ELSE /\ rx' = [rx EXCEPT ![d] = client]
                   /\ closed' = cl
                   /\ fut' = h.fut
                   /\ UNCHANGED <<pc, connectedEvent, evSet, dexc>>
    /\ UNCHANGED <<client, nconn, connMax, shutdownEvent, lastMsgId, resultFutures,
                   subscriptions, mid, retryable, csize, rlist, ndisp, detached>>
    /\ wire' = NoFrame
    /\ ret' = NoReturn

DispRecvFrame(d, fr) ==
    /\ pc[d] = "recv"
    /\ fr \in InFrames(rx[d])
    /\ DispIteration(d, fr, MaxCallbacks)

DispRecv(d) ==
    /\ pc[d] = "recv"
    /\ \E fr \in InFrames(rx[d]) : DispRecvFrame(d, fr)

\* close() awaited by the dispatcher's _close_client has completed
DispClosing(d) ==
    /\ d \in Disps
    /\ pc[d] = "closing"
    /\ DispFinish(d, dexc[d], fut)
    /\ UNCHANGED <<connVars, maxMsgSize, connectedEvent, shutdownEvent, lastMsgId,
                   resultFutures, subscriptions, mid, rx, retryable, csize,
                   rlist, ndisp, detached, callbacks>>
    /\ wire' = NoFrame
    /\ ret' = NoReturn

\* the event loop runs the oldest scheduled subscription handler
RunCallback ==
    /\ callbacks # <<>>
    /\ callbacks' = Tail(callbacks)
    /\ wire' = NoFrame
    /\ ret' = NoReturn
    /\ UNCHANGED <<connVars, maxMsgSize, eventVars, muxVars, subscriptions, taskVars,
                   detached>>

Next ==
    \/ \E c \in Callers : \E retry \in BOOLEAN : SendCommand(c, retry)
    \/ \E c \in Callers : CallerResume(c)
    \/ \E c \in Callers : RetryWake(c)
    \/ \E c \in Callers : SendCommandNoWait(c)
    \/ \E item \in detached : RunDetached(item)
    \/ \E s \in Subs : Subscribe(s)
    \/ \E s \in Subs : SubscribeResume(s)
    \/ \E s \in Subs : RemoveListener(s)
    \/ \E t \in Ctls : CtlConnect(t)
    \/ \E t \in Sups : SupAttempt(t)
    \/ \E t \in Invokers : WsConnect(t)
    \/ \E t \in Invokers : Handshake(t)
    \/ \E t \in Sups : SupReplayResume(t)
    \/ \E t \in Ctls : Disconnect(t)
    \/ \E t \in Ctls : DisconnectReturn(t)
    \/ \E d \in Disps : DispStart(d)
    \/ \E d \in Disps : DispRecv(d)
    \/ \E d \in Disps : DispClosing(d)
    \/ RunCallback

Spec == Init /\ [][Next]_vars

\* connect(), disconnect(), the dispatchers and the supervisors, with one
\* caller that uses plain send_command only, and only while connected
LifecycleNext ==
    \/ \E c \in Callers : Connected /\ SendCommand(c, FALSE)
    \/ \E c \in Callers : CallerResume(c)
    \/ \E t \in Ctls : CtlConnect(t)
    \/ \E t \in Sups : SupAttempt(t)
    \/ \E t \in Invokers : WsConnectUpTo(t, MaxLifecycleConn)
    \/ \E t \in Invokers : Handshake(t)
    \/ \E t \in Ctls : Disconnect(t)
    \/ \E t \in Ctls : DisconnectReturn(t)
    \/ \E d \in Disps : DispStart(d)
    \/ \E d \in Disps : DispRecv(d)
    \/ \E d \in Disps : DispClosing(d)

LifecycleSpec == Init /\ [][LifecycleNext]_vars

\* what receive() can complete with when the events of the server carry data
DeliveryFrames(k) ==
    IF closed[k]
    THEN InFrames(k)
    ELSE {fr \in InFrames(k) : fr.kind # "event"}
         \cup {[kind |-> "event", id |-> i, ok |-> FALSE, val |-> e, size |-> 0] :
                  i \in Ids, e \in EventPayloads}

DeliveryRecvFrame(d, fr) ==
    /\ pc[d] = "recv"
    /\ fr \in DeliveryFrames(rx[d])
    /\ DispIteration(d, fr, MaxDeliveryCallbacks)

DeliveryRecv(d) ==
    /\ pc[d] = "recv"
    /\ \E fr \in DeliveryFrames(rx[d]) : DeliveryRecvFrame(d, fr)

\* one connection made by connect(), a subscribe() with its removal handle,
\* the dispatcher and the scheduled handlers
DeliveryNext ==
    \/ \E s \in Subs : Subscribe(s)
    \/ \E s \in Subs : SubscribeResume(s)
    \/ \E s \in Subs : RemoveListener(s)
    \/ \E t \in Ctls : CtlConnect(t)
    \/ \E t \in Ctls : WsConnectUpTo(t, 1)
    \/ \E t \in Ctls : Handshake(t)
    \/ \E d \in Disps : DispStart(d)
    \/ \E d \in Disps : DeliveryRecv(d)
    \/ \E d \in Disps : DispClosing(d)
    \/ RunCallback

DeliverySpec == Init /\ [][DeliveryNext]_vars

\* connect(), disconnect(), the dispatchers and the supervisors without any
\* caller of commands
ShutdownNext ==
    \/ \E t \in Ctls : CtlConnect(t)
    \/ \E t \in Sups : SupAttempt(t)
    \/ \E t \in Invokers : WsConnect(t)
    \/ \E t \in Invokers : Handshake(t)
    \/ \E t \in Ctls : Disconnect(t)
    \/ \E t \in Ctls : DisconnectReturn(t)
    \/ \E d \in Disps : DispStart(d)
    \/ \E d \in Disps : DispRecv(d)
    \/ \E d \in Disps : DispClosing(d)

\* the event loop runs every task that is ready, every transport operation
\* (ws_connect, receive, close) completes and asyncio.sleep ends; when the
\* user code calls connect() or disconnect() is up to the user code
ShutdownFairness ==
    /\ \A t \in Sups : WF_vars(SupAttempt(t))
    /\ \A t \in Invokers : WF_vars(WsConnect(t)) /\ WF_vars(Handshake(t))
    /\ \A t \in Ctls : WF_vars(DisconnectReturn(t))
    /\ \A d \in Disps : WF_vars(DispStart(d)) /\ WF_vars(DispRecv(d))
                             /\ WF_vars(DispClosing(d))

FairShutdownSpec == Init /\ [][ShutdownNext]_vars /\ ShutdownFairness

\* ---- properties ---------------------------------------------------------------
\* the coroutines that call send_command
Requesters == Callers \cup Subs \cup Sups

\* every identifier the program holds: keys of the pending map and of the
\* registry, the message_id locals of suspended send_command calls and the
\* ids of frames that detached tasks have still to send
IdsInUse ==
    (resultFutures \cup SubKeys \cup {mid[t] : t \in Requesters}
         \cup {item.id : item \in detached}) \ {0}

\* the suspended send_command calls await pairwise different ids
PendingDistinct ==
    \A t1 \in Requesters :
        pc[t1] \in {"await", "replay"} =>
            \A t2 \in Requesters \ {t1} :
                pc[t2] \in {"await", "replay"} => mid[t1] # mid[t2]

\* C1: whatever the interleaving of send_command, send_command_no_wait,
\* subscribe and the supervisor's replay, an identifier returned by
\* _get_message_id is strictly greater than every identifier returned before
\* it (the counter and every id still held anywhere), and the requests
\* pending at the same time carry pairwise different ids.
C1_FreshIds ==
    [][/\ PendingDistinct'
       /\ (lastMsgId' # lastMsgId) =>
              /\ lastMsgId' > lastMsgId
              /\ \A i \in IdsInUse : i < lastMsgId']_vars

\* a caller's request and a subscribe are pending at the same time
C1_Witness ==
    /\ pc[<<"caller", 1>>] = "await"
    /\ pc[<<"sub", 1>>] = "await"
    /\ {mid[<<"caller", 1>>], mid[<<"sub", 1>>]} \subseteq resultFutures

\* the result frames the server can send
ResultFrames ==
    {[kind |-> "result", id |-> i, ok |-> TRUE, val |-> r, size |-> 0] :
        i \in Ids, r \in Results}
    \cup {[kind |-> "result", id |-> i, ok |-> FALSE, val |-> m, size |-> 0] :
        i \in Ids, m \in ErrMsgs}

\* C2: when a send_command caller is suspended on the frame it sent with id X
\* and a dispatcher processes a result frame for X, the future of X takes the
\* frame's result (success) or its error message (failure) and no future of
\* another id takes a result or an error from it; the future then keeps that
\* value until the caller resumes, and the caller resumes by returning exactly
\* that result, or by raising FailedCommand with exactly that message.
C2_ResultSettlesCaller ==
    [][\A c \in Callers :
          (pc[c] = "await") =>
             /\ \A d \in Disps, fr \in ResultFrames :
                   (fr.id = mid[c] /\ fut[mid[c]].st = "pending" /\ pc[d] = "recv"
                        /\ DispRecvFrame(d, fr)) =>
                       /\ fut'[fr.id] =
                             [st |-> IF fr.ok THEN "result" ELSE "exception", val |-> fr.val]
                       /\ \A j \in Ids \ {fr.id} :
                             fut'[j].st \in {"result", "exception"} => fut'[j] = fut[j]
             /\ (fut[mid[c]].st \in {"result", "exception"}) =>
                   IF pc'[c] = "await" /\ mid'[c] = mid[c]
                   THEN fut'[mid[c]] = fut[mid[c]]
                   ELSE ret' = IF fut[mid[c]].st = "result"
                               THEN Return(c, fut[mid[c]].val)
                               ELSE RaiseMsg(c, "FailedCommand", fut[mid[c]].val)]_vars

\* a caller has just got the result of its frame while a subscribe with
\* another id is still unanswered
C2_Witness ==
    /\ ret = Return(<<"caller", 1>>, "r2")
    /\ pc[<<"sub", 1>>] = "await"
    /\ fut[mid[<<"sub", 1>>]].st = "pending"

\* there is no transport object, or the current one is closed
NoOpenTransport == client = 0 \/ closed[client]

\* C3 as stated: whenever `connected` is false, a call of send_command,
\* send_command_no_wait or subscribe fails at its caller with NotConnected and
\* hands no frame to the transport.
C3_AllSendsRaiseNotConnected ==
    [][NoOpenTransport =>
          /\ \A c \in Callers :
                ((\E retry \in BOOLEAN : SendCommand(c, retry)) \/ SendCommandNoWait(c))
                    => (ret' = Raise(c, "NotConnected") /\ wire' = NoFrame)
          /\ \A s \in Subs :
                Subscribe(s) => (ret' = Raise(s, "NotConnected") /\ wire' = NoFrame)]_vars

\* C3, amended: whenever `connected` is false, a call of send_command,
\* send_retryable_command or subscribe (and the re-send of a woken
\* send_retryable_command) fails at its caller with NotConnected and hands no
\* frame to the transport; a call of send_command_no_wait returns None to its
\* caller and hands over no frame, and the task it leaves behind hands over
\* no frame and reaches no caller when `connected` is false as it runs.
C3_NotConnectedNoFrame ==
    [][NoOpenTransport =>
          /\ \A c \in Callers :
                /\ ((\E retry \in BOOLEAN : SendCommand(c, retry)) \/ RetryWake(c))
                       => (ret' = Raise(c, "NotConnected") /\ wire' = NoFrame)
                /\ SendCommandNoWait(c) => (ret' = Return(c, "None") /\ wire' = NoFrame)
          /\ \A s \in Subs :
                Subscribe(s) => (ret' = Raise(s, "NotConnected") /\ wire' = NoFrame)
          /\ \A item \in detached :
                RunDetached(item) => (ret' = NoReturn /\ wire' = NoFrame)]_vars

\* no connection was ever opened: send_command_no_wait has returned, its frame
\* still unsent, and now subscribe has raised NotConnected
C3_Witness ==
    /\ nconn = 0
    /\ \E item \in detached : item.stage = "send"
    /\ ret = Raise(<<"sub", 1>>, "NotConnected")

\* C4: a send_command or subscribe call that fails with NotConnected allocates
\* no identifier and leaves the id counter, the pending-request map and the
\* subscription registry as they were before the call.
C4_FailedSendChangesNothing ==
    [][\A t \in Callers \cup Subs :
          (pc[t] = "idle" /\ ret' = Raise(t, "NotConnected")) =>
              /\ lastMsgId' = lastMsgId
              /\ resultFutures' = resultFutures
              /\ subscriptions' = subscriptions]_vars

\* C5: the send_command calls that are outstanding while a disconnect() is
\* waiting for the cleanup are cancelled with one and the same cause, and
\* none of their callers completes with a normal return.
C5_DisconnectFailsOutstanding ==
    [][\A t \in Ctls :
          (pc[t] = "disc_wait") =>
              /\ \A c1, c2 \in Callers \cup Subs :
                    (/\ pc[c1] = "await" /\ fut[mid[c1]].st = "cancelled"
                     /\ pc[c2] = "await" /\ fut[mid[c2]].st = "cancelled")
                        => fut[mid[c1]].val = fut[mid[c2]].val
              /\ \A c \in Callers \cup Subs :
                    (/\ pc[c] = "await"
                     /\ fut[mid[c]].st \in {"pending", "cancelled"}
                     /\ pc'[c] # "await")
                        => (ret'.task = c /\ ret'.kind = "raise")]_vars

\* C6: when the subscribe command that a supervisor re-issued after its
\* reconnect is answered with a result, each subscription that its caller has
\* not removed is in the registry, and the one that was re-issued is keyed by
\* the fresh identifier of that command.
C6_SubscriptionSurvivesReplay ==
    [][\A d \in Conns, s \in Subs :
          (/\ pc[Sup(d)] = "replay" /\ pc'[Sup(d)] # "replay"
           /\ fut[mid[Sup(d)]].st = "result"
           /\ pc[s] = "subscribed")
              => \E i \in 1..Len(subscriptions') :
                    /\ subscriptions'[i].sub = SubOf(s)
                    /\ subscriptions'[i].id \in Ids \ {InitMsgId}]_vars

\* some supervisor has reconnected
SupReconnected == \E d \in Conns : pc[Sup(d)] \in {"replay", "done"}

\* C7: a send_retryable_command whose request ended with the message-too-large
\* failure sends its command again, once, on the connection the supervisor
\* has made: as long as nobody has asked for a disconnect, the step in which
\* it goes on after the reconnect hands exactly its frame, under a fresh id,
\* to the open current connection and suspends on the answer.
C7_ResentOnceAfterReconnect ==
    [][\A c \in Callers :
          (/\ SupReconnected
           /\ shutdownEvent = NoEvent
           /\ \/ pc[c] = "wake"
              \/ /\ pc[c] = "await" /\ retryable[c] /\ connectedEvent
                 /\ fut[mid[c]] = [st |-> "cancelled",
                                   val |-> "ConnectionFailedDueToLargeMessage"]
           /\ pc'[c] # pc[c] \/ mid'[c] # mid[c])
              => /\ pc'[c] = "await"
                 /\ wire' = Frame(mid'[c], CmdOf(c), 0, client)
                 /\ mid'[c] = lastMsgId' /\ lastMsgId' > lastMsgId
                 /\ ~NoOpenTransport]_vars

\* no coroutine is suspended on a request that is still unanswered
NoneOutstanding ==
    \A t \in Tasks : pc[t] \in {"await", "replay"} => fut[mid[t]].st # "pending"

\* C8: when a disconnect() that was called while connected returns, the
\* transport is closed, the cleanup has left no request outstanding and the
\* connected event is clear; a disconnect() called while not connected
\* changes nothing of the client.
C8_DisconnectCompletes ==
    [][\A t \in Ctls :
          /\ (pc[t] = "disc_wait" /\ pc'[t] = "disconnected") =>
                 /\ NoOpenTransport'
                 /\ ~connectedEvent'
                 /\ NoneOutstanding'
          /\ (NoOpenTransport /\ pc[t] \in {"idle", "disconnected"}
                  /\ pc'[t] = "disconnected" /\ ret' = Return(t, "None")) =>
                 UNCHANGED <<connVars, maxMsgSize, eventVars, muxVars, subscriptions,
                             detached, callbacks>>]_vars

\* C9: from the return of disconnect() until the same caller calls connect()
\* again the client is not connected.
C9_StaysDisconnected ==
    \A t \in Ctls : pc[t] = "disconnected" => ~Connected

\* C10: the removal handle of a subscription that is registered and whose
\* command name contains "subscribe" returns without error, deletes the
\* record and leaves exactly one fire-and-forget unsubscribe command for the
\* record's current identifier; called when the record is gone it changes
\* nothing.
C10_RemoveUnsubscribesOnce ==
    [][\A s \in Subs :
          RemoveListener(s) =>
              LET i == LookupKey(SubOf(s)) IN
              IF i # 0 /\ Contains(SubOf(s).base.command, "subscribe")
              THEN /\ ret' = Return(s, "None")
                   /\ subscriptions' = PopAt(i)
                   /\ \E item \in detached' :
                         /\ detached' = detached \cup {item}
                         /\ item \notin detached
                         /\ item.type = Replace(SubOf(s).base.command,
                                                "subscribe", "unsubscribe")
                         /\ item.subscription = subscriptions[i].id
              ELSE /\ ret' = Return(s, "None")
                   /\ UNCHANGED <<subscriptions, detached>>]_vars

\* the records of the registry
SubRecords == {subscriptions[i] : i \in 1..Len(subscriptions)}

\* the event frames a server can send
EventFrames ==
    {[kind |-> "event", id |-> i, ok |-> FALSE, val |-> e, size |-> 0] :
        i \in Ids, e \in EventPayloads}

\* C11: when the dispatcher handles an event frame whose id is a key of the
\* registry, exactly one invocation of that record's callback, with that
\* frame, is scheduled behind every invocation scheduled before it and is not
\* run within the dispatcher's step; no other step schedules an invocation,
\* and the invocation that runs is always the oldest one scheduled, so the
\* callbacks run in the order the frames were received.
C11_CallbackOncePerEventInOrder ==
    [][/\ \A d \in Disps, fr \in EventFrames :
             (pc[d] = "recv" /\ fr.id \in SubKeys /\ DeliveryRecvFrame(d, fr)) =>
                 \E r \in SubRecords :
                     /\ r.id = fr.id
                     /\ callbacks' = callbacks \o
                            <<[cb |-> r.sub.cb, id |-> fr.id, val |-> fr.val]>>
       /\ \/ callbacks' = callbacks
          \/ callbacks # <<>> /\ callbacks' = Tail(callbacks)
          \/ /\ Len(callbacks') = Len(callbacks) + 1
             /\ SubSeq(callbacks', 1, Len(callbacks)) = callbacks
             /\ \E d \in Disps : pc[d] = "recv"]_vars

\* two events of one subscription are scheduled and none has run; the first
\* received is the first to run
C11_Witness ==
    /\ Len(callbacks) = 2
    /\ callbacks[1].id = callbacks[2].id
    /\ callbacks[1].val = "e2" /\ callbacks[2].val = "e1"
    /\ pc[<<"sub", 1>>] = "subscribed"

\* C12: every key of the pending-request map is the id of a send_command call
\* that has sent its frame and is suspended on the answer; the id of a call
\* that has returned or raised is not a key of the map.
C12_NoLeakedPending ==
    \A i \in resultFutures :
        \E t \in Requesters : pc[t] \in {"await", "replay"} /\ mid[t] = i

\* some caller is inside disconnect(), waiting for the cleanup
DisconnectInProgress == \E t \in Ctls : pc[t] = "disc_wait"

\* dispatcher d is the only dispatcher task that has not ended
OnlyDispatcher(d) == \A e \in Disps \ {d} : pc[e] \in {"off", "done"}

\* C13: when the only dispatcher ends its cleanup while a caller's
\* disconnect() is waiting, it sets that caller's shutdown event; when it ends
\* its cleanup and no disconnect() is in progress, it starts the reconnect
\* supervisor, in the first connection epoch and in every later one.
C13_ExitStartsSupervisorOrSignals ==
    [][\A d \in Disps :
          (/\ pc[d] \in {"start", "recv", "closing"} /\ pc'[d] = "done"
           /\ OnlyDispatcher(d)) =>
              IF DisconnectInProgress
              THEN \A t \in Ctls : pc[t] = "disc_wait" => evSet'[t]
              ELSE pc'[Sup(d[2])] = "start"]_vars

\* C14: a connect attempt of the reconnect supervisor either succeeds (the
\* dispatcher of the new connection is created) or is followed by the sleep
\* before the next attempt; the supervisor never ends on a failed attempt.
C14_SupervisorNeverGivesUp ==
    [][\A t \in Sups :
          (pc[t] \in {"ws_connect", "handshake"} /\ pc'[t] # pc[t]) =>
              \/ pc'[t] \in {"handshake", "sleep"}
              \/ ndisp' = ndisp + 1]_vars

\* the connection-fatal errors of the dispatcher loop
FatalErrors == {"ConnectionFailed", "ConnectionFailedDueToLargeMessage", "InvalidMessage"}

\* the frames on which the loop body raises a connection-fatal error
FatalFrames ==
    {[kind |-> x, id |-> 0, ok |-> FALSE, val |-> "", size |-> 0] :
        x \in {"ERROR", "TOO_BIG_UNPARSED", "BINARY", "BAD_JSON"}}
    \cup {[kind |-> "TOO_BIG", id |-> 0, ok |-> FALSE, val |-> "", size |-> n] :
             n \in AttemptedSizes}

\* the send_command calls that are suspended on an unanswered request
Outstanding == {t \in Requesters : pc[t] \in {"await", "replay"} /\ fut[mid[t]].st = "pending"}

C16_RegistryCompleteDuringReplay ==
    \A t \in Sups, d \in Disps, s \in Subs :
        (pc[t] = "replay" /\ pc[d] = "recv" /\ pc[s] = "subscribed") =>
            \E r \in SubRecords : r.sub = SubOf(s)

\* C17: no step hands a command frame to a connection on which connect() is
\* still in its handshake (the auth result has not been received).
C17_NoFrameBeforeAuthOk ==
    wire # NoFrame =>
        \A t \in Invokers : ~(pc[t] = "handshake" /\ rx[t] = wire.conn)

\* C18: a result frame whose id has no pending request any more, because
\* the future awaited under that id is already settled or because the caller
\* has resumed and removed the slot, changes no future and leaves the
\* dispatcher in its loop, waiting for the next frame.
C18_LateResultIsNoOp ==
    [][\A d \in Disps, fr \in ResultFrames :
          (/\ pc[d] = "recv" /\ ~closed[client]
           /\ \/ fr.id \notin resultFutures
              \/ Awaited(fr.id) /\ fut[fr.id].st \in {"result", "exception", "cancelled"}
           /\ DispRecvFrame(d, fr)) =>
              (fut' = fut /\ pc'[d] = "recv")]_vars

\* the dispatcher tasks and the supervisor tasks that have not ended
ActiveDispatchers == {d \in Disps : pc[d] \in {"start", "recv", "closing"}}

ActiveSupervisors ==
    {t \in Sups : pc[t] \in {"start", "ws_connect", "handshake", "sleep", "replay"}}

\* C19: in every reachable state at most one dispatcher task and at most one
\* supervisor task is running, and a dispatcher that waits for a frame waits
\* on the current transport.
C19_SingleDispatcherAndSupervisor ==
    /\ Cardinality(ActiveDispatchers) <= 1
    /\ Cardinality(ActiveSupervisors) <= 1
    /\ \A d \in Disps : pc[d] = "recv" => rx[d] = client

\* C20: when a connect() that was called with no dispatcher and no
\* supervisor running and the connected event clear fails with CannotConnect
\* or AuthenticationFailed, `connected` is false, the connected event is
\* clear and no dispatcher is running, so that a following send_command
\* raises NotConnected.
C20_FailedConnectLeavesDisconnected ==
    [][\A t \in Ctls :
          (/\ ret' \in {Raise(t, "CannotConnect"), Raise(t, "AuthenticationFailed")}
           /\ pc[t] \in {"ws_connect", "handshake"}
           /\ ActiveDispatchers = {} /\ ActiveSupervisors = {} /\ ~connectedEvent) =>
              /\ ~Connected'
              /\ ~connectedEvent'
              /\ ActiveDispatchers' = {}]_vars

\* C21: a disconnect() that has suspended on its shutdown event eventually
\* returns, whatever state it was called in (a disconnect() called while not
\* connected returns in the step of the call).
C21_DisconnectReturns ==
    \A t \in Ctls : (pc[t] = "disc_wait") ~> (pc[t] = "disconnected")

====
